---------------------------- MODULE Spec2Model ----------------------------
(***************************************************************************)
(* A model of the log error-grouping engine of OptiMaint                   *)
(* (src/src/routes/analyze_logs.py): the pattern matcher, the normalizer,  *)
(* the signature builder, the context extractor, parse_log_file and the    *)
(* /processLogFile request handler with its Gemini enrichment and its      *)
(* temporary files; and of concurrent requests to /generateCombinedPDF     *)
(* (src/src/routes/analyze_combined.py) with theirs.                       *)
(*                                                                         *)
(* A Python str is modelled as a sequence of one-character strings, so     *)
(* that the regular expressions of the source act on characters.  The      *)
(* alphabet is ASCII: Python's \d, \w, \s and \b are Unicode-aware, and    *)
(* the characters outside ASCII are not modelled.                          *)
(***************************************************************************)
EXTENDS Integers, Sequences, FiniteSets, TLC

-----------------------------------------------------------------------------
(* Character classes of the regular expressions. *)

Digit == {"0","1","2","3","4","5","6","7","8","9"}

Upper == {"A","B","C","D","E","F","G","H","I","J","K","L","M",
          "N","O","P","Q","R","S","T","U","V","W","X","Y","Z"}

Lower == {"a","b","c","d","e","f","g","h","i","j","k","l","m",
          "n","o","p","q","r","s","t","u","v","w","x","y","z"}

Alpha == Upper \cup Lower

\* [a-zA-Z0-9]
AlNum == Alpha \cup Digit

\* \w
WordChar == AlNum \cup {"_"}

\* [0-9a-fA-F]
HexDigit == Digit \cup {"a","b","c","d","e","f","A","B","C","D","E","F"}

\* The control characters VT, FS, GS, RS and US (0x0b, 0x1c..0x1f), written
\* as they are: a TLA+ string has no escape for them.
VT == ""

FS == ""

GS == ""

RS == ""

US == ""

\* \s of a str pattern and the characters str.strip() removes, in ASCII.
Space == {" ", "\t", "\n", VT, "\f", "\r", FS, GS, RS, US}

\* The character of s at position p (1-based), "" outside the string.
At(s, p) == IF p >= 1 /\ p <= Len(s) THEN s[p] ELSE ""

\* \b between positions p-1 and p: exactly one side is a word character.
Boundary(s, p) == (At(s, p - 1) \in WordChar) # (At(s, p) \in WordChar)

\* The least element of a non-empty set of integers.
Least(S) == CHOOSE m \in S : \A n \in S : m <= n

\* The first position >= p whose character is not in C (a greedy C* from p).
RunEnd(s, p, C) ==
    IF At(s, p) \notin C THEN p
    ELSE Least({q \in (p + 1)..(Len(s) + 1) : At(s, q) \notin C})

\* The first position >= p that is white space or the end (a greedy [^\s]* from p).
RunEndNonSpace(s, p) ==
    IF p > Len(s) \/ At(s, p) \in Space THEN p
    ELSE Least({q \in (p + 1)..(Len(s) + 1) : q > Len(s) \/ s[q] \in Space})

\* The literal lit stands in s at position p.
LitAt(s, p, lit) ==
    /\ p >= 1
    /\ p + Len(lit) - 1 <= Len(s)
    /\ \A k \in 1..Len(lit) : s[p + k - 1] = lit[k]

\* The characters of s at p.. are in the classes of shape, one each.
ShapeAt(s, p, shape) ==
    /\ p >= 1
    /\ p + Len(shape) - 1 <= Len(s)
    /\ \A k \in 1..Len(shape) : s[p + k - 1] \in shape[k]

\* s[from .. to-1]
Slice(s, from, to) == SubSeq(s, from, to - 1)

-----------------------------------------------------------------------------
(* ERROR_PATTERNS and the pattern matcher. *)

ERROR_PATTERNS == <<
    <<"E","R","R","O","R">>,
    <<"E","x","c","e","p","t","i","o","n">>,
    <<"F","A","T","A","L">>,
    <<"S","E","V","E","R","E">>,
    <<"T","r","a","c","e","b","a","c","k"," ","(","m","o","s","t"," ",
      "r","e","c","e","n","t"," ","c","a","l","l"," ","l","a","s","t",")",":">>,
    <<"C","a","u","s","e","d"," ","b","y",":">> >>

\* p.search(line) starting a match at position p, for the k-th pattern:
\*   1..4  \bTOKEN\b.*      5  Traceback \(most recent call last\):.*
\*   6     \bCaused by:\b.*
PatternAt(k, line, p) ==
    LET lit == ERROR_PATTERNS[k]
        q   == p + Len(lit)
    IN  /\ LitAt(line, p, lit)
        /\ CASE k \in 1..4 -> Boundary(line, p) /\ Boundary(line, q)
             [] k = 5      -> TRUE
             [] k = 6      -> Boundary(line, p) /\ Boundary(line, q)

\* compiled_patterns[k].search(line) is not None
PatternSearch(k, line) == \E p \in 1..Len(line) : PatternAt(k, line, p)

\* The upper-case letter of a lower-case one, any other character unchanged.
ToUpper(c) ==
    LET lower == <<"a","b","c","d","e","f","g","h","i","j","k","l","m",
                   "n","o","p","q","r","s","t","u","v","w","x","y","z">>
        upper == <<"A","B","C","D","E","F","G","H","I","J","K","L","M",
                   "N","O","P","Q","R","S","T","U","V","W","X","Y","Z">>
    IN  IF \E k \in 1..26 : lower[k] = c
        THEN upper[CHOOSE k \in 1..26 : lower[k] = c]
        ELSE c

\* A matcher whose token patterns ignore the case.
is_error_line_ignorecase(line) ==
    \/ \E k \in 1..Len(ERROR_PATTERNS) : PatternSearch(k, line)
    \/ \E k \in 1..4 : PatternSearch(k, [p \in 1..Len(line) |-> ToUpper(line[p])])

\* any(p.search(line) for p in compiled_patterns)
is_error_line(line) == \E k \in 1..Len(ERROR_PATTERNS) : PatternSearch(k, line)

-----------------------------------------------------------------------------
(* NORMALIZERS and normalize_message. *)

TimestampShape == <<Digit, Digit, Digit, Digit, {"-"}, Digit, Digit, {"-"},
                    Digit, Digit, {" ", "T"}, Digit, Digit, {":"},
                    Digit, Digit, {":"}, Digit, Digit>>

TimeShape == <<Digit, Digit, {":"}, Digit, Digit, {":"}, Digit, Digit>>

\* The replacement string of the r-th normalizer.
NormalizerRepl ==  <<
    <<"<","T","I","M","E","S","T","A","M","P",">">>,
    <<"<","T","I","M","E",">">>,
    <<"<","N","U","M",">">>,
    <<"<","H","E","X",">">>,
    <<"<","I","P",">">>,
    <<"<","P","A","T","H",">">>,
    <<"P","I","D","=","<","N","U","M",">">>,
    <<"t","h","r","e","a","d","-","<","N","U","M",">">>,
    <<" ">> >>

\* \b\d+\b at p: the end of the match, 0 when there is none.  No shorter digit
\* run can end at a \b, so the greedy run decides.
NumEnd(s, p) ==
    LET e == RunEnd(s, p, Digit)
    IN  IF Boundary(s, p) /\ e > p /\ Boundary(s, e) THEN e ELSE 0

\* \d{1,3} followed by the character `next` at p: the position after `next`.
IpGroupEnd(s, p) ==
    LET e == RunEnd(s, p, Digit)
    IN  IF p >= 1 /\ e - p \in 1..3 /\ At(s, e) = "." THEN e + 1 ELSE 0

\* \b(?:\d{1,3}\.){3}\d{1,3}\b at p
IpEnd(s, p) ==
    LET g1 == IpGroupEnd(s, p)
        g2 == IF g1 = 0 THEN 0 ELSE IpGroupEnd(s, g1)
        g3 == IF g2 = 0 THEN 0 ELSE IpGroupEnd(s, g2)
        e  == IF g3 = 0 THEN 0 ELSE RunEnd(s, g3, Digit)
    IN  IF Boundary(s, p) /\ g3 # 0 /\ e - g3 \in 1..3 /\ Boundary(s, e)
        THEN e ELSE 0

\* [A-Za-z]:\\[^\s]+|/[^\s]+ at p
PathEnd(s, p) ==
    IF At(s, p) \in Alpha /\ At(s, p + 1) = ":" /\ At(s, p + 2) = "\\"
       /\ RunEndNonSpace(s, p + 3) > p + 3
    THEN RunEndNonSpace(s, p + 3)
    ELSE IF At(s, p) = "/" /\ RunEndNonSpace(s, p + 1) > p + 1
         THEN RunEndNonSpace(s, p + 1)
         ELSE 0

\* \bPREFIX\d+\b at p
PrefixedNumEnd(s, p, prefix) ==
    LET d == p + Len(prefix)
        e == RunEnd(s, d, Digit)
    IN  IF Boundary(s, p) /\ LitAt(s, p, prefix) /\ e > d /\ Boundary(s, e)
        THEN e ELSE 0

\* The end (exclusive) of the match of the r-th NORMALIZERS pattern that
\* starts at position p of s, 0 when the pattern does not match there.
MatchEnd(r, s, p) ==
    CASE r = 1 -> IF ShapeAt(s, p, TimestampShape)
                  THEN IF At(s, p + 19) = "," /\ At(s, p + 20) \in Digit
                       THEN RunEnd(s, p + 20, Digit)
                       ELSE p + 19
                  ELSE 0
      [] r = 2 -> IF Boundary(s, p) /\ ShapeAt(s, p, TimeShape) /\ Boundary(s, p + 8)
                  THEN p + 8 ELSE 0
      [] r = 3 -> NumEnd(s, p)
      [] r = 4 -> IF At(s, p) = "0" /\ At(s, p + 1) = "x" /\ At(s, p + 2) \in HexDigit
                  THEN RunEnd(s, p + 2, HexDigit) ELSE 0
      [] r = 5 -> IpEnd(s, p)
      [] r = 6 -> PathEnd(s, p)
      [] r = 7 -> PrefixedNumEnd(s, p, <<"P","I","D","=">>)
      [] r = 8 -> PrefixedNumEnd(s, p, <<"t","h","r","e","a","d","-">>)
      [] r = 9 -> IF At(s, p) \in Space THEN RunEnd(s, p, Space) ELSE 0

\* The positions of s where the r-th pattern matches.
MatchStarts(r, s) == {q \in 1..Len(s) : MatchEnd(r, s, q) # 0}

\* re.sub(pat, repl, s) for the r-th normalizer, scanning from position p:
\* the leftmost match at or after p is replaced, the text before it is kept,
\* and the scan goes on after the match.  starts is MatchStarts(r, s).
RECURSIVE ReSubFrom(_, _, _, _)
ReSubFrom(r, s, p, starts) ==
    LET ahead == {q \in starts : q >= p}
    IN  IF ahead = {} THEN Slice(s, p, Len(s) + 1)
        ELSE LET q == Least(ahead)
             IN  Slice(s, p, q) \o NormalizerRepl[r]
                 \o ReSubFrom(r, s, MatchEnd(r, s, q), starts)

ReSub(r, s) == ReSubFrom(r, s, 1, MatchStarts(r, s))

\* The number of NORMALIZERS.
NumNormalizers == Len(NormalizerRepl)

\* text after the rules 1..r have been applied in order.
RECURSIVE ApplyNormalizers(_, _)
ApplyNormalizers(r, text) ==
    IF r = 0 THEN text ELSE ReSub(r, ApplyNormalizers(r - 1, text))

\* s without its leading characters in C.
LStripSet(s, C) == Slice(s, RunEnd(s, 1, C), Len(s) + 1)

\* s without its trailing characters in C.
RStripSet(s, C) ==
    LET keep == {q \in 0..Len(s) : \A j \in (q + 1)..Len(s) : s[j] \in C}
    IN  SubSeq(s, 1, Least(keep))

\* str.strip(): leading and trailing white space removed.
Strip(s) == RStripSet(LStripSet(s, Space), Space)

\* str.rstrip("\n")
RStripNewline(s) == RStripSet(s, {"\n"})

\* A normalizer that stops after the two time rules.
normalize_times_only(msg) == Strip(ApplyNormalizers(2, msg))

normalize_message(msg) == Strip(ApplyNormalizers(NumNormalizers, msg))

-----------------------------------------------------------------------------
(* stable_signature and get_context. *)

\* The [:50] of stable_signature.
SignatureLen == 50

Max(a, b) == IF a >= b THEN a ELSE b

Min(a, b) == IF a <= b THEN a ELSE b

\* re.sub(r"[^a-zA-Z0-9]", "_", text)
Sanitize(text) == [k \in 1..Len(text) |-> IF text[k] \in AlNum THEN text[k] ELSE "_"]

\* A signature cut one character short.
stable_signature_short(text) ==
    SubSeq(Sanitize(text), 1, Min(Len(text), SignatureLen - 1))

stable_signature(text) == SubSeq(Sanitize(text), 1, Min(Len(text), SignatureLen))

\* "\n".join(ls)
RECURSIVE JoinNewline(_)
JoinNewline(ls) ==
    IF ls = << >> THEN << >>
    ELSE IF Len(ls) = 1 THEN ls[1]
    ELSE ls[1] \o <<"\n">> \o JoinNewline(Tail(ls))

\* The defaults of get_context.
ContextBefore == 3

ContextAfter == 3

\* get_context(lines, index): index is 0-based, lines[start:end] is the
\* slice of the 0-based indices start .. end-1.
get_context(ls, index) ==
    LET start == Max(0, index - ContextBefore)
        end   == Min(Len(ls), index + ContextAfter + 1)
    IN  JoinNewline(SubSeq(ls, start + 1, end))

-----------------------------------------------------------------------------
(* parse_log_file. *)

\* open(path, "r") reads with universal newlines: "\r\n" and a lone "\r"
\* reach the program as "\n".
UniversalNewlines(text) ==
    LET marked == [p \in 1..Len(text) |->
                      IF text[p] = "\r"
                      THEN IF At(text, p + 1) = "\n" THEN "<dropped>" ELSE "\n"
                      ELSE text[p]]
        kept(c) == c # "<dropped>"
    IN  SelectSeq(marked, kept)

\* The text cut after each "\n", the terminators kept; a last line without
\* terminator is a line too.
RECURSIVE SplitLines(_)
SplitLines(text) ==
    IF text = << >> THEN << >>
    ELSE LET nl == {p \in 1..Len(text) : text[p] = "\n"}
         IN  IF nl = {} THEN <<text>>
             ELSE <<SubSeq(text, 1, Least(nl))>>
                  \o SplitLines(SubSeq(text, Least(nl) + 1, Len(text)))

\* f.readlines() of the file opened in text mode, text being what the file
\* holds.
readlines(text) == SplitLines(UniversalNewlines(text))

\* A dict key that is not set (g["solution"] before the enrichment).
NoKey == <<"<unset>">>

\* The position in the dict groups (kept in insertion order) of key sig, 0
\* when sig is not in groups.
GroupIndex(gs, sig) ==
    IF \E k \in 1..Len(gs) : gs[k].type = sig
    THEN CHOOSE k \in 1..Len(gs) : gs[k].type = sig
    ELSE 0

\* A group created with the count of its first match already in it.
NewGroupCounted(sig, line) ==
    [type |-> sig,
     representative_message |-> Strip(line),
     examples |-> << >>,
     count |-> 1,
     severity |-> "MEDIUM",
     solution |-> NoKey]

\* groups[sig] = {...}: the group a first match of sig creates.
NewGroup(sig, line) ==
    [type |-> sig,
     representative_message |-> Strip(line),
     examples |-> << >>,
     count |-> 0,
     severity |-> "MEDIUM",
     solution |-> NoKey]

\* An occurrence numbered by the 0-based index of its line.
OccurrenceZeroBased(line, ls, i) ==
    [original_message |-> Strip(line),
     lineNumber |-> i,
     context |-> get_context(ls, i)]

\* The occurrence appended for the match at 0-based index i.
Occurrence(line, ls, i) ==
    [original_message |-> Strip(line),
     lineNumber |-> i + 1,
     context |-> get_context(ls, i)]

\* groups[sig]["count"] += 1; groups[sig]["examples"].append(...)
AddOccurrence(g, occ) ==
    [g EXCEPT !.count = @ + 1, !.examples = Append(@, occ)]

\* groups with the group of sig created when it is missing.
EnsureGroup(gs, sig, line) ==
    IF GroupIndex(gs, sig) = 0 THEN Append(gs, NewGroup(sig, line)) ELSE gs

\* A loop body that records the line once for each pattern that matches it.
RECURSIVE AddOccurrences(_, _, _)
AddOccurrences(g, occ, n) ==
    IF n = 0 THEN g ELSE AddOccurrences(AddOccurrence(g, occ), occ, n - 1)

ParseStepPerPattern(gs, ls, i) ==
    LET line == RStripNewline(ls[i + 1])
        n    == Cardinality({k \in 1..Len(ERROR_PATTERNS) : PatternSearch(k, line)})
    IN  IF n > 0
        THEN LET sig == stable_signature(normalize_message(line))
                 gs1 == EnsureGroup(gs, sig, line)
                 k   == GroupIndex(gs1, sig)
             IN  [gs1 EXCEPT ![k] = AddOccurrences(@, Occurrence(line, ls, i), n)]
        ELSE gs

\* The body of the loop of parse_log_file for the line of 0-based index i.
ParseStep(gs, ls, i) ==
    LET line == RStripNewline(ls[i + 1])
    IN  IF is_error_line(line)
        THEN LET sig == stable_signature(normalize_message(line))
                 gs1 == EnsureGroup(gs, sig, line)
                 k   == GroupIndex(gs1, sig)
             IN  [gs1 EXCEPT ![k] = AddOccurrence(@, Occurrence(line, ls, i))]
        ELSE gs

-----------------------------------------------------------------------------
(* The request: ProcessLogQuery, the filter, the sort, the truncation. *)

\* request.form.get(name, None) when the field is absent.
Absent == <<"<absent>">>

\* None, and the Optional[int] holding n.
None == << >>

Some(n) == <<n>>

\* An optional sign and digits: what the parse of an integer accepts.
IsPlainInt(s) ==
    LET d == IF At(s, 1) \in {"-", "+"} THEN 2 ELSE 1
    IN  /\ Len(s) >= d
        /\ \A k \in d..Len(s) : s[k] \in Digit

\* The white space pydantic trims from a str before it reads an int.
TrimSpace == {" ", "\t", "\n", VT, "\f", "\r"}

Trim(s) == RStripSet(LStripSet(s, TrimSpace), TrimSpace)

\* A text that begins with "0" loses its leading zeros and the underscores
\* among them, up to the first digit of 1 to 9 or "-"; one character is kept
\* before a "." and of a text of zeros and underscores only. A text that
\* begins with a digit of 1 to 9 or with "-" is left as it is. << >> for any
\* other text.
StripLeadingZeros(s) ==
    LET significant == (Digit \ {"0"}) \cup {"-"}
        stops       == {p \in 2..Len(s) : s[p] \notin {"0", "_"}}
    IN  IF At(s, 1) = "0"
        THEN IF stops = {} THEN <<s[Len(s)]>>
             ELSE IF s[Least(stops)] \in significant
                  THEN Slice(s, Least(stops), Len(s) + 1)
             ELSE IF s[Least(stops)] = "."
                  THEN Slice(s, Least(stops) - 1, Len(s) + 1)
             ELSE << >>
        ELSE IF At(s, 1) \in significant THEN s
        ELSE << >>

\* "1.0" is read as "1": a "." followed by zeros, at least one and nothing
\* else, is cut off with them.
StripDecimalZeros(s) ==
    LET dots == {p \in 1..Len(s) : s[p] = "."}
    IN  IF /\ dots # {}
           /\ Least(dots) < Len(s)
           /\ \A p \in (Least(dots) + 1)..Len(s) : s[p] = "0"
        THEN SubSeq(s, 1, Least(dots) - 1)
        ELSE s

\* "1_000" is read as "1000": underscores that are single and inside.
StripUnderscores(s) ==
    LET unders  == {p \in 1..Len(s) : s[p] = "_"}
        not_(c) == c # "_"
    IN  IF \/ unders = {}
           \/ 1 \in unders
           \/ Len(s) \in unders
           \/ \E p \in unders : p + 1 \in unders
        THEN s
        ELSE SelectSeq(s, not_)

\* The text the trimmed str t is cleaned to before a second parse: a "+" and
\* a "-" are taken off (a sign after the sign is no int), then the leading
\* zeros, the decimal zeros and the underscores, and the "-" is put back.
\* << >> when the cleaning gives up or has changed nothing.
CleanIntStr(t) ==
    LET plus     == At(t, 1) = "+"
        unsigned == IF plus THEN Tail(t) ELSE t
        minus    == At(unsigned, 1) = "-"
        digits   == IF minus THEN Tail(unsigned) ELSE unsigned
        nonzero  == StripLeadingZeros(digits)
        whole    == StripDecimalZeros(nonzero)
        stripped == StripUnderscores(whole)
        sign     == IF minus THEN <<"-">> ELSE << >>
    IN  IF plus /\ At(unsigned, 1) = "-" THEN << >>
        ELSE IF minus /\ At(digits, 1) \in {"-", "+"} THEN << >>
        ELSE IF nonzero = << >> THEN << >>
        ELSE IF stripped # whole THEN sign \o stripped
        ELSE IF Len(whole) = Len(t) THEN << >>
        ELSE sign \o whole

\* What the second parse accepts of a cleaned text: an optional "-" and
\* digits with no zero before another digit ("-1", "-10" and "-0", never
\* "-01": "0-1" is read as -1 and "0-01" is no int).
IsCleanedInt(c) ==
    LET d == IF At(c, 1) = "-" THEN 2 ELSE 1
    IN  /\ Len(c) >= d
        /\ \A k \in d..Len(c) : c[k] \in Digit
        /\ Len(c) > d => c[d] # "0"

\* The longest text, sign included, that a parse reads as an int.
MaxStrDigits == 4300

\* The sign and digits pydantic reads the str s as, << >> when it reads no
\* int in s: the trimmed str when it parses, else the cleaned one; neither
\* parse reads a text longer than MaxStrDigits.
IntText(s) ==
    LET t == Trim(s)
        c == CleanIntStr(t)
    IN  IF IsPlainInt(t) /\ Len(t) <= MaxStrDigits THEN t
        ELSE IF IsCleanedInt(c) /\ Len(c) <= MaxStrDigits THEN c
        ELSE << >>

\* A str pydantic reads as an int.
IsIntString(s) == IntText(s) # << >>

DigitValue(c) ==
    CASE c = "0" -> 0 [] c = "1" -> 1 [] c = "2" -> 2 [] c = "3" -> 3
      [] c = "4" -> 4 [] c = "5" -> 5 [] c = "6" -> 6 [] c = "7" -> 7
      [] c = "8" -> 8 [] c = "9" -> 9

RECURSIVE DecimalValue(_)
DecimalValue(ds) ==
    IF ds = << >> THEN 0
    ELSE 10 * DecimalValue(SubSeq(ds, 1, Len(ds) - 1)) + DigitValue(ds[Len(ds)])

\* The int pydantic reads the str s as.
IntOfString(s) ==
    LET t == IntText(s)
    IN  IF At(t, 1) = "-" THEN 0 - DecimalValue(Tail(t))
        ELSE IF At(t, 1) = "+" THEN DecimalValue(Tail(t))
        ELSE DecimalValue(t)

\* The field `int | None = None` of ProcessLogQuery accepts the form value.
FieldValid(raw) == raw = Absent \/ IsIntString(raw)

FieldValue(raw) == IF raw = Absent THEN None ELSE Some(IntOfString(raw))

\* `if q.min_count:` and `if q.top_k:`: not None and not 0.
Truthy(opt) == opt # None /\ opt[1] # 0

\* [g for g in groups if g["count"] >= q.min_count], under `if q.min_count:`
FilterMinCount(gs, min_count) ==
    IF Truthy(min_count)
    THEN LET keep(g) == g.count >= min_count[1] IN SelectSeq(gs, keep)
    ELSE gs

\* g put into a list sorted by count descending, after the elements whose
\* count is not smaller (the sort is stable).
InsertByCount(sorted, g) ==
    LET before == {k \in 0..Len(sorted) : \A j \in 1..k : sorted[j].count >= g.count}
        k      == CHOOSE m \in before : \A n \in before : n <= m
    IN  SubSeq(sorted, 1, k) \o <<g>> \o SubSeq(sorted, k + 1, Len(sorted))

\* groups.sort(key=lambda g: g["count"], reverse=True)
RECURSIVE SortByCount(_)
SortByCount(gs) ==
    IF gs = << >> THEN << >>
    ELSE InsertByCount(SortByCount(SubSeq(gs, 1, Len(gs) - 1)), gs[Len(gs)])

\* The slice s[:k] of Python, k of either sign.
SliceTo(s, k) ==
    IF k >= 0 THEN SubSeq(s, 1, Min(k, Len(s)))
    ELSE SubSeq(s, 1, Max(0, Len(s) + k))

\* groups[:q.top_k], under `if q.top_k:`
TopK(gs, top_k) == IF Truthy(top_k) THEN SliceTo(gs, top_k[1]) ELSE gs

\* The three steps of process_log_file between the parse and the enrichment.
RankGroups(gs, query) ==
    TopK(SortByCount(FilterMinCount(gs, query.min_count)), query.top_k)

-----------------------------------------------------------------------------
(* GeminiClient. *)

\* A str the engine never looks into, and an f-string of such parts.
Opaque(name) == <<name>>

FString(prefix, e) == <<prefix, e>>

\* What the external model does when generate_content is called: it raises,
\* or replies with a text; the text holds no {...}, holds one that json.loads
\* rejects, or holds a JSON object whose two fields are each missing, not a
\* str, or a str.
FieldKinds == {"missing", "invalid", "str"}

Outcomes ==
    {[kind |-> "raises"], [kind |-> "no_json"], [kind |-> "bad_json"]}
    \cup {[kind |-> "json", reformulated |-> a, solution |-> b] :
            a \in FieldKinds, b \in FieldKinds}

\* The outcome of a suggest_solution that does not call the model.
NoCall == [kind |-> "no_call"]

\* self.enabled = bool(self.api_key) and genai is not None
GeminiEnabled(environment) == environment.api_key /\ environment.genai

\* str(e) of the exception an outcome raises inside the try block, "" when
\* the try block raises nothing.
Raised(o) ==
    CASE o.kind = "raises"   -> "generate_content failed"
      [] o.kind = "bad_json" -> "JSONDecodeError"
      [] o.kind = "json" /\ (o.reformulated # "str" \/ o.solution # "str")
                             -> "ValidationError"
      [] OTHER               -> ""

\* The result of the try block of suggest_solution when nothing is raised.
TryAnswer(o) ==
    IF o.kind = "json"
    THEN [raised |-> FALSE,
          reformulated |-> Opaque("model reformulated"),
          solution |-> Opaque("model solution")]
    ELSE [raised |-> FALSE,
          reformulated |-> Opaque("Aucune reformulation recue"),
          solution |-> Opaque("Verifier le message et le contexte manuellement")]

\* except Exception as e: the fallback answer.
ExceptAnswer(e) ==
    [raised |-> FALSE,
     reformulated |-> FString("Echec Gemini: ", e),
     solution |-> FString("Echec Gemini: ", e)]

\* A suggest_solution whose try block has no except clause.
suggest_solution_unguarded(enabled, error_message, o) ==
    IF ~enabled
    THEN [raised |-> FALSE,
          reformulated |-> Opaque("Gemini desactive, impossible de reformuler."),
          solution |-> Opaque("Verifier la cle API et l'installation de la librairie.")]
    ELSE IF Raised(o) # "" THEN [raised |-> TRUE] ELSE TryAnswer(o)

\* GeminiClient.suggest_solution: raised tells that the call raised to its
\* caller, and then there is no answer.
suggest_solution(enabled, error_message, o) ==
    IF ~enabled
    THEN [raised |-> FALSE,
          reformulated |-> Opaque("Gemini desactive, impossible de reformuler."),
          solution |-> Opaque("Verifier la cle API et l'installation de la librairie.")]
    ELSE IF Raised(o) # "" THEN ExceptAnswer(Raised(o)) ELSE TryAnswer(o)

\* An enrichment that sets the solution and keeps the message of the group.
EnrichedKeepingMessage(g, answer) == [g EXCEPT !.solution = answer.solution]

\* g["representative_message"] = answer.reformulated; g["solution"] = answer.solution
Enriched(g, answer) ==
    [g EXCEPT !.representative_message = answer.reformulated,
              !.solution = answer.solution]

-----------------------------------------------------------------------------
(* The inputs of the model. *)

\* The longest file of the grouping requests, of the matcher requests, of the
\* ranking requests and of the variant requests, in lines.
MaxLines == 3

MaxMatchLines == 2

MaxRankLines == 3

MaxVariantLines == 2

\* The longest batch of the batch requests, in files.
MaxFiles == 2

SeqsUpTo(S, n) == UNION {[1..k -> S] : k \in 0..n}

\* The text of a file whose lines are bodies, each ended by "\n", the last
\* one only when final_newline.
RECURSIVE FileText(_, _)
FileText(bodies, final_newline) ==
    IF bodies = << >> THEN << >>
    ELSE IF Len(bodies) = 1
         THEN IF final_newline THEN bodies[1] \o <<"\n">> ELSE bodies[1]
         ELSE bodies[1] \o <<"\n">> \o FileText(Tail(bodies), final_newline)

Upload(name, text) == [filename |-> name, content |-> text]

Request(uploads, top_k, min_count) ==
    [files |-> uploads, top_k |-> top_k, min_count |-> min_count]

Environment(api_key, genai) == [api_key |-> api_key, genai |-> genai]

\* Lines of the grouping requests.
GroupLines == {
    <<"E","R","R","O","R"," ","1","2">>,
    <<"E","R","R","O","R"," ","7">>,
    <<"E","R","R","O","R"," ","1","0","x","1","F">>,
    <<"E","R","R","O","R"," ","a",".","b">>,
    <<"E","R","R","O","R"," ","a"," ","b">>,
    <<"E","R","R","O","R"," ","a",VT,"b",US>>,
    <<"I","N","F","O"," ","o","k">> }

\* Lines of the matcher requests: each token and phrase, and lines without.
MatchLines == {
    <<"E","R","R","O","R"," ","7">>,
    <<"E","x","c","e","p","t","i","o","n"," ","i","n"," ","x">>,
    <<"F","A","T","A","L"," ","x">>,
    <<"S","E","V","E","R","E">>,
    <<"T","r","a","c","e","b","a","c","k"," ","(","m","o","s","t"," ",
      "r","e","c","e","n","t"," ","c","a","l","l"," ","l","a","s","t",")",":">>,
    <<"C","a","u","s","e","d"," ","b","y",":"," ","E">>,
    <<"C","a","u","s","e","d"," ","b","y",":","E">>,
    <<"I","N","F","O"," ","o","k">>,
    <<"e","r","r","o","r"," ","x">>,
    <<"M","y","E","x","c","e","p","t","i","o","n">>,
    <<"E","R","R","O","R","S">>,
    <<" ","\t">>,
    << >> }

\* Lines of the ranking requests: three error classes.
RankLines == {
    <<"F","A","T","A","L"," ","a">>,
    <<"E","R","R","O","R"," ","b">>,
    <<"S","E","V","E","R","E"," ","c">> }

\* The file of counts [5, 1, 3], the classes first seen in this order.
CountsFile ==
    LET a == <<"F","A","T","A","L"," ","a">>
        b == <<"E","R","R","O","R"," ","b">>
        c == <<"S","E","V","E","R","E"," ","c">>
    IN  <<a, b, c, a, c, a, a, c, a>>

\* A connection error line with its timestamp, address and process id.
ConnectionLine(timestamp, address, pid) ==
    timestamp
    \o <<" ","E","R","R","O","R"," ","C","o","n","n","e","c","t","i","o","n"," ",
         "r","e","f","u","s","e","d"," ","a","t"," ">>
    \o address \o <<" ","P","I","D","=">> \o pid

Connection1 ==
    ConnectionLine(<<"2","0","2","4","-","0","1","-","0","2"," ",
                     "1","0",":","0","0",":","0","0">>,
                   <<"1","0",".","0",".","0",".","5">>,
                   <<"1","2","3","4">>)

Connection2 ==
    ConnectionLine(<<"2","0","2","4","-","0","1","-","0","2"," ",
                     "1","0",":","0","5",":","3","3">>,
                   <<"1","0",".","0",".","0",".","9">>,
                   <<"5","6","7","8">>)

Connection3 ==
    ConnectionLine(<<"2","0","2","4","-","0","1","-","0","3","T",
                     "0","7",":","0","0",":","0","9",",","1","2","5">>,
                   <<"1","9","2",".","1","6","8",".","1",".","7","7">>,
                   <<"7">>)

\* The lines that differ only in the timestamp, the address and the id.
Variants == {Connection1, Connection2, Connection3}

\* A connection line with a text after the id.
ConnectionRetry == Connection1 \o <<" ","r","e","t","r","y">>

VariantLines == Variants \cup {ConnectionRetry}

\* The file of the end-to-end scenario.
ScenarioFile ==
    <<<<"I","N","F","O"," ","s","t","a","r","t">>,
      Connection1,
      <<"s","o","m","e"," ","o","t","h","e","r"," ","i","n","f","o">>,
      Connection2>>

\* Form values of top_k and min_count.
ValidInts == {<<"0">>, <<"-","1">>, <<"1">>, <<"2">>}

NoGemini == Environment(FALSE, FALSE)

\* The requests: <<request, environment>>.
GroupRequests ==
    {<<Request(<<Upload(<<"a",".","l","o","g">>, FileText(b, TRUE))>>, Absent, Absent), NoGemini>> :
        b \in SeqsUpTo(GroupLines, MaxLines)}

MatchRequests ==
    {<<Request(<<Upload(<<"a",".","l","o","g">>, FileText(b, TRUE))>>, Absent, Absent), NoGemini>> :
        b \in SeqsUpTo(MatchLines, MaxMatchLines)}

RankRequests ==
    {<<Request(<<Upload(<<"a",".","l","o","g">>, FileText(b, TRUE))>>, k, m), NoGemini>> :
        b \in SeqsUpTo(RankLines, MaxRankLines) \cup {CountsFile},
        k \in {Absent} \cup ValidInts,
        m \in {Absent, <<"0">>, <<"2">>}}

VariantRequests ==
    {<<Request(<<Upload(<<"a",".","l","o","g">>, FileText(b, nl))>>, Absent, Absent), NoGemini>> :
        b \in SeqsUpTo(VariantLines, MaxVariantLines) \cup {ScenarioFile},
        nl \in BOOLEAN}

\* A text of digits that is one longer than a parse reads.
TooManyDigits == [k \in 1..(MaxStrDigits + 1) |-> "1"]

InvalidRequests ==
    {<<Request(<< >>, Absent, Absent), NoGemini>>,
     <<Request(<<Upload(<<"a",".","l","o","g">>, << >>)>>, TooManyDigits, Absent), NoGemini>>,
     <<Request(<<Upload(<<"a",".","l","o","g">>, << >>)>>, Absent, <<"-">> \o TooManyDigits),
       Environment(TRUE, TRUE)>>,
     <<Request(<<Upload(<<"a",".","l","o","g">>, << >>)>>, <<"a","b","c">>, Absent), NoGemini>>,
     <<Request(<<Upload(<<"a",".","l","o","g">>, << >>)>>, <<"1",".","5">>, Absent), NoGemini>>,
     <<Request(<<Upload(<<"a",".","l","o","g">>, << >>)>>, <<FS,"1">>, Absent), NoGemini>>,
     <<Request(<<Upload(<<"a",".","l","o","g">>, << >>)>>, <<"1",".">>, Absent), NoGemini>>,
     <<Request(<<Upload(<<"a",".","l","o","g">>, << >>)>>, <<"0","-","0","1">>, Absent), NoGemini>>,
     <<Request(<<Upload(<<"a",".","l","o","g">>, << >>)>>, Absent, <<"+","_","0">>), NoGemini>>,
     <<Request(<<Upload(<<"a",".","l","o","g">>, << >>)>>, Absent, << >>), NoGemini>>}

\* Requests whose form values are integers written with white space, a
\* decimal point, an underscore, or zeros before an underscore or a "-".
LaxIntRequests ==
    {<<Request(<<Upload(<<"a",".","l","o","g">>, FileText(CountsFile, TRUE))>>, k, m), NoGemini>> :
        k \in {<<" ","2","\n">>, <<"1",".","0">>, <<"0",".","0">>, <<"1","_","0">>,
               <<"0","_","1">>, <<"0","-","1">>},
        m \in {Absent, <<"+","2">>, <<VT,"3">>}}

EnrichFiles ==
    {<<Upload(<<"a",".","l","o","g">>, FileText(<<<<"E","R","R","O","R"," ","7">>,
                                  <<"F","A","T","A","L"," ","x">>>>, TRUE))>>,
     <<Upload(<<"a",".","l","o","g">>, FileText(<<<<"E","R","R","O","R"," ","7">>>>, TRUE)),
       Upload(<<"b",".","l","o","g">>, FileText(<<<<"I","N","F","O"," ","o","k">>,
                                  <<"F","A","T","A","L"," ","x">>>>, FALSE))>>}

EnrichRequests ==
    {<<Request(u, k, Absent), Environment(key, lib)>> :
        u \in EnrichFiles, k \in {Absent, <<"1">>},
        key \in BOOLEAN, lib \in BOOLEAN}

\* Uploads of the batch requests: a file of one error, a file without error,
\* a file whose first and last line match several patterns, an empty file
\* that has the name of the first, a file whose name holds a directory, and
\* a file with "\r\n" and "\r" line ends.
BatchUploads ==
    {Upload(<<"a",".","l","o","g">>, FileText(<<<<"E","R","R","O","R"," ","7">>>>, TRUE)),
     Upload(<<"b",".","l","o","g">>, FileText(<<<<"I","N","F","O"," ","o","k">>>>, TRUE)),
     Upload(<<"c",".","l","o","g">>, FileText(<<<<"F","A","T","A","L"," ","E","x","c","e","p","t","i","o","n">>,
                                <<"E","R","R","O","R"," ","7">>,
                                <<"F","A","T","A","L"," ","E","x","c","e","p","t","i","o","n">>>>,
                              FALSE)),
     Upload(<<"a",".","l","o","g">>, << >>),
     Upload(<<"x","/","b",".","l","o","g">>,
            FileText(<<<<"E","R","R","O","R"," ","7">>>>, TRUE)),
     Upload(<<"d",".","l","o","g">>, <<"E","R","R","O","R"," ","7","\r","\n",
                       "I","N","F","O"," ","o","k","\r",
                       "F","A","T","A","L"," ","x","\r","\n">>)}

BatchRequests ==
    {<<Request(u, Absent, m), NoGemini>> :
        u \in SeqsUpTo(BatchUploads, MaxFiles) \ {<< >>},
        m \in {Absent, <<"2">>}}

Requests ==
    GroupRequests \cup MatchRequests \cup RankRequests \cup VariantRequests
    \cup InvalidRequests \cup EnrichRequests \cup BatchRequests
    \cup LaxIntRequests

-----------------------------------------------------------------------------
(* The temporary files, and the report entries. *)

\* The files of tempfile.gettempdir() that the requests created: a function
\* from each path that exists to the request that wrote it last.
NoFiles == [p \in {} |-> 0]

\* file.save(path), doc.build and NamedTemporaryFile: path exists afterwards,
\* written by owner.
WriteFile(f, path, owner) ==
    [p \in DOMAIN f \cup {path} |-> IF p = path THEN owner ELSE f[p]]

\* `if os.path.exists(f): os.remove(f)` for each f of paths.
RemoveFiles(f, paths) == [p \in DOMAIN f \ paths |-> f[p]]

\* uuid.uuid4() and the name NamedTemporaryFile picks: a value never drawn
\* before, the count of the values drawn so far plus one.
Fresh(drawn) == drawn + 1

\* os.path.join(temp_dir, f"{uuid.uuid4()}_{file.filename}")
SavedPath(u, filename) == <<"upload", u, filename>>

\* file.save(saved_path) can open saved_path for writing: the client's
\* filename puts it in no directory below the temporary one, which has none
\* of a name that begins with a fresh uuid.
CanSave(filename) == \A p \in 1..Len(filename) : filename[p] # "/"

\* os.path.join(temp_dir, f"report_{report_id}.pdf")
ReportPath(u) == <<"report", u>>

\* The elements of a list.
Range(s) == {s[k] : k \in 1..Len(s)}

\* A report that gets an entry only for a file with groups.
AppendReportNonEmpty(all, filename, gs) ==
    IF gs = << >> THEN all ELSE Append(all, [filename |-> filename, groups |-> gs])

\* all_files_groups.append({"filename": file.filename, "groups": groups})
AppendReport(all, filename, gs) ==
    Append(all, [filename |-> filename, groups |-> gs])

-----------------------------------------------------------------------------
(* The state of one request to /processLogFile. *)

VARIABLES
    request,            \* request.files and request.form
    env,                \* GEMINI_API_KEY is set, google.generativeai imports
    pc,                 \* where process_log_file stands
    q,                  \* the validated ProcessLogQuery
    enabled,            \* gemini.enabled
    file_index,         \* the position in files of the file being processed
    lines,              \* lines of parse_log_file
    i,                  \* the number of lines parse_log_file has processed
    groups,             \* groups, of parse_log_file and then of the handler
    group_index,        \* the number of groups the enrichment loop has done
    all_files_groups,   \* all_files_groups
    response,           \* the status the handler answers with, 0 before
    fs,                 \* the files of the temporary directory
    fresh,              \* the number of uuid4 and temporary names drawn
    saved_files,        \* saved_files
    pdf_path,           \* pdf_path, None before it is set
    calls,              \* the calls of gemini.suggest_solution, in order
    failure,            \* the exception that ended the handler, "" when none
    combined            \* the requests to /generateCombinedPDF

logvars == <<request, env, pc, q, enabled, file_index, lines, i, groups,
             group_index, all_files_groups, response, saved_files, pdf_path,
             calls, failure>>

vars == <<request, env, pc, q, enabled, file_index, lines, i, groups,
          group_index, all_files_groups, response, fs, fresh, saved_files,
          pdf_path, calls, failure, combined>>

\* The request to /processLogFile, as the writer of its files.
LogRequest == "log"

NoQuery == [top_k |-> None, min_count |-> None]

Init ==
    /\ \E r \in Requests : request = r[1] /\ env = r[2]
    /\ pc = "start"
    /\ q = NoQuery
    /\ enabled = FALSE
    /\ file_index = 1
    /\ lines = << >>
    /\ i = 0
    /\ groups = << >>
    /\ group_index = 0
    /\ all_files_groups = << >>
    /\ response = 0
    /\ fs = NoFiles
    /\ fresh = 0
    /\ saved_files = << >>
    /\ pdf_path = None
    /\ calls = << >>
    /\ failure = ""
    /\ combined = << >>

\* `if not files:` and the ValidationError of ProcessLogQuery: 400.
Reject ==
    /\ pc = "start"
    /\ \/ request.files = << >>
       \/ ~FieldValid(request.top_k)
       \/ ~FieldValid(request.min_count)
    /\ pc' = "done"
    /\ response' = 400
    /\ UNCHANGED <<request, env, q, enabled, file_index, lines, i, groups,
                   group_index, all_files_groups>>
    /\ UNCHANGED <<fs, fresh, saved_files, pdf_path, calls, failure, combined>>

\* q = ProcessLogQuery(**payload); gemini = GeminiClient(language=q.language)
Accept ==
    /\ pc = "start"
    /\ request.files # << >>
    /\ FieldValid(request.top_k)
    /\ FieldValid(request.min_count)
    /\ q' = [top_k |-> FieldValue(request.top_k),
             min_count |-> FieldValue(request.min_count)]
    /\ enabled' = GeminiEnabled(env)
    /\ pc' = "file"
    /\ UNCHANGED <<request, env, file_index, lines, i, groups, group_index,
                   all_files_groups, response>>
    /\ UNCHANGED <<fs, fresh, saved_files, pdf_path, calls, failure, combined>>

\* The same steps when genai.configure or genai.GenerativeModel raises in
\* GeminiClient.__init__, which calls them when the key is set and the
\* library imports: the construction is in no try, and the handler ends with
\* a server error before any file is saved.
GeminiClientFails ==
    /\ pc = "start"
    /\ request.files # << >>
    /\ FieldValid(request.top_k)
    /\ FieldValid(request.min_count)
    /\ GeminiEnabled(env)
    /\ q' = [top_k |-> FieldValue(request.top_k),
             min_count |-> FieldValue(request.min_count)]
    /\ failure' = "client"
    /\ response' = 500
    /\ pc' = "done"
    /\ UNCHANGED <<request, env, enabled, file_index, lines, i, groups,
                   group_index, all_files_groups>>
    /\ UNCHANGED <<fs, fresh, saved_files, pdf_path, calls, combined>>

\* The head of `for file in files:`, file.save, and open and readlines of
\* parse_log_file.
OpenFile ==
    /\ pc = "file"
    /\ file_index <= Len(request.files)
    /\ CanSave(request.files[file_index].filename)
    /\ LET saved_path == SavedPath(Fresh(fresh), request.files[file_index].filename)
       IN  /\ fs' = WriteFile(fs, saved_path, LogRequest)
           /\ saved_files' = Append(saved_files, saved_path)
    /\ fresh' = fresh + 1
    /\ lines' = readlines(request.files[file_index].content)
    /\ i' = 0
    /\ groups' = << >>
    /\ pc' = "parse"
    /\ UNCHANGED <<request, env, q, enabled, file_index, group_index,
                   all_files_groups, response>>
    /\ UNCHANGED <<pdf_path, calls, failure, combined>>

\* The same head when file.save(saved_path) raises: saved_files.append is
\* not reached, nothing catches the exception and the handler ends with a
\* server error. The file was not created when the path could not be opened;
\* when the write raised, it was created and stays.
SaveFileFails ==
    /\ pc = "file"
    /\ file_index <= Len(request.files)
    /\ LET saved_path == SavedPath(Fresh(fresh), request.files[file_index].filename)
       IN  \E created \in {FALSE, CanSave(request.files[file_index].filename)} :
              fs' = IF created THEN WriteFile(fs, saved_path, LogRequest) ELSE fs
    /\ fresh' = fresh + 1
    /\ failure' = "save"
    /\ response' = 500
    /\ pc' = "done"
    /\ UNCHANGED <<request, env, q, enabled, file_index, lines, i, groups,
                   group_index, all_files_groups>>
    /\ UNCHANGED <<saved_files, pdf_path, calls, combined>>

\* The same head when open(path) of parse_log_file raises: nothing catches
\* the exception, and the handler ends with a server error.
OpenFileFails ==
    /\ pc = "file"
    /\ file_index <= Len(request.files)
    /\ CanSave(request.files[file_index].filename)
    /\ LET saved_path == SavedPath(Fresh(fresh), request.files[file_index].filename)
       IN  /\ fs' = WriteFile(fs, saved_path, LogRequest)
           /\ saved_files' = Append(saved_files, saved_path)
    /\ fresh' = fresh + 1
    /\ failure' = "read"
    /\ response' = 500
    /\ pc' = "done"
    /\ UNCHANGED <<request, env, q, enabled, file_index, lines, i, groups,
                   group_index, all_files_groups>>
    /\ UNCHANGED <<pdf_path, calls, combined>>

\* One turn of `for i, line in enumerate(lines):`.
ParseLine ==
    /\ pc = "parse"
    /\ i < Len(lines)
    /\ groups' = ParseStep(groups, lines, i)
    /\ i' = i + 1
    /\ UNCHANGED <<request, env, pc, q, enabled, file_index, lines,
                   group_index, all_files_groups, response>>
    /\ UNCHANGED <<fs, fresh, saved_files, pdf_path, calls, failure, combined>>

\* return list(groups.values()), and the filter, the sort and the truncation
\* of the handler.
Rank ==
    /\ pc = "parse"
    /\ i = Len(lines)
    /\ groups' = RankGroups(groups, q)
    /\ group_index' = 0
    /\ pc' = "enrich"
    /\ UNCHANGED <<request, env, q, enabled, file_index, lines, i,
                   all_files_groups, response>>
    /\ UNCHANGED <<fs, fresh, saved_files, pdf_path, calls, failure, combined>>

\* One turn of `for g in groups:`; an answer that raised ends the request
\* with a server error.
Enrich ==
    /\ pc = "enrich"
    /\ group_index < Len(groups)
    /\ \E o \in (IF enabled THEN Outcomes ELSE {NoCall}) :
         LET g      == groups[group_index + 1]
             answer == suggest_solution(enabled, g.representative_message, o)
         IN  /\ calls' = Append(calls, [file |-> file_index,
                                        error_message |-> g.representative_message,
                                        answer |-> answer])
             /\ IF answer.raised
                THEN /\ pc' = "done"
                     /\ response' = 500
                     /\ failure' = "enrich"
                     /\ UNCHANGED <<groups, group_index>>
                ELSE /\ groups' = [groups EXCEPT ![group_index + 1] = Enriched(g, answer)]
                     /\ group_index' = group_index + 1
                     /\ UNCHANGED <<pc, response, failure>>
    /\ UNCHANGED <<request, env, q, enabled, file_index, lines, i,
                   all_files_groups>>
    /\ UNCHANGED <<fs, fresh, saved_files, pdf_path, combined>>

\* all_files_groups.append({"filename": file.filename, "groups": groups})
AppendFile ==
    /\ pc = "enrich"
    /\ group_index = Len(groups)
    /\ all_files_groups' =
         AppendReport(all_files_groups, request.files[file_index].filename, groups)
    /\ file_index' = file_index + 1
    /\ pc' = "file"
    /\ UNCHANGED <<request, env, q, enabled, lines, i, groups, group_index,
                   response>>
    /\ UNCHANGED <<fs, fresh, saved_files, pdf_path, calls, failure, combined>>

\* pdf_path is set, the story is made of all_files_groups and doc.build
\* writes the report.
BuildReport ==
    /\ pc = "file"
    /\ file_index > Len(request.files)
    /\ pdf_path' = Some(ReportPath(Fresh(fresh)))
    /\ fresh' = fresh + 1
    /\ fs' = WriteFile(fs, ReportPath(Fresh(fresh)), LogRequest)
    /\ pc' = "send"
    /\ UNCHANGED <<request, env, q, enabled, file_index, lines, i, groups,
                   group_index, all_files_groups, response>>
    /\ UNCHANGED <<saved_files, calls, failure, combined>>

\* The same steps when a Paragraph or doc.build raises: nothing catches the
\* exception, and the handler ends with a server error before any cleanup.
BuildReportFails ==
    /\ pc = "file"
    /\ file_index > Len(request.files)
    /\ pdf_path' = Some(ReportPath(Fresh(fresh)))
    /\ fresh' = fresh + 1
    /\ failure' = "render"
    /\ response' = 500
    /\ pc' = "done"
    /\ UNCHANGED <<request, env, q, enabled, file_index, lines, i, groups,
                   group_index, all_files_groups>>
    /\ UNCHANGED <<fs, saved_files, calls, combined>>

\* `for f in saved_files:` removes the saved uploads that exist, the hook
\* remove_file is registered and the handler returns the response of
\* send_file: the report is still there.
SendReport ==
    /\ pc = "send"
    /\ fs' = RemoveFiles(fs, Range(saved_files))
    /\ pc' = "hook"
    /\ response' = 200
    /\ UNCHANGED <<request, env, q, enabled, file_index, lines, i, groups,
                   group_index, all_files_groups>>
    /\ UNCHANGED <<fresh, saved_files, pdf_path, calls, failure, combined>>

\* The same loop when os.remove raises on the saved upload of position k:
\* the loop is in no try, the handler ends with a server error before the
\* hook is registered, and that upload, the later ones and the report stay.
SendReportFails ==
    /\ pc = "send"
    /\ \E k \in 1..Len(saved_files) :
         fs' = RemoveFiles(fs, {saved_files[j] : j \in 1..(k - 1)})
    /\ failure' = "cleanup"
    /\ response' = 500
    /\ pc' = "done"
    /\ UNCHANGED <<request, env, q, enabled, file_index, lines, i, groups,
                   group_index, all_files_groups>>
    /\ UNCHANGED <<fresh, saved_files, pdf_path, calls, combined>>

\* remove_file, which Flask calls after the handler has returned: the report
\* is removed when it exists.
remove_file ==
    /\ pc = "hook"
    /\ fs' = RemoveFiles(fs, {pdf_path[1]})
    /\ pc' = "done"
    /\ UNCHANGED <<request, env, q, enabled, file_index, lines, i, groups,
                   group_index, all_files_groups, response>>
    /\ UNCHANGED <<fresh, saved_files, pdf_path, calls, failure, combined>>

\* remove_file when os.remove raises: `except Exception: pass`, the
\* response is the same and the report stays.
remove_file_fails ==
    /\ pc = "hook"
    /\ pc' = "done"
    /\ UNCHANGED <<request, env, q, enabled, file_index, lines, i, groups,
                   group_index, all_files_groups, response>>
    /\ UNCHANGED <<fs, fresh, saved_files, pdf_path, calls, failure, combined>>

Next ==
    \/ Reject
    \/ Accept
    \/ GeminiClientFails
    \/ OpenFile
    \/ SaveFileFails
    \/ OpenFileFails
    \/ ParseLine
    \/ Rank
    \/ Enrich
    \/ AppendFile
    \/ BuildReport
    \/ BuildReportFails
    \/ SendReport
    \/ SendReportFails
    \/ remove_file
    \/ remove_file_fails

Spec == Init /\ [][Next]_vars


-----------------------------------------------------------------------------
(* Concurrent requests to /generateCombinedPDF (analyze_combined.py). *)

\* The number of requests in flight at once.
NumRequests == 2

\* A key that is not in request.files.
NoUpload == <<"<no upload>">>

\* The greatest element of a non-empty set of integers.
Greatest(S) == CHOOSE m \in S : \A n \in S : n <= m

\* os.path.basename(filename): what follows the last "/".
basename(filename) ==
    LET seps == {p \in 1..Len(filename) : filename[p] = "/"}
    IN  IF seps = {} THEN filename
        ELSE SubSeq(filename, Greatest(seps) + 1, Len(filename))

\* os.path.join(temp_dir, f"temp_{os.path.basename(filename)}")
TempPath(filename) == <<"temp", basename(filename)>>

\* The name of tempfile.NamedTemporaryFile(delete=False, suffix=".pdf").
NamedTemporaryFile(u) == <<"tmp", u>>

\* The uploads of a request: the filename under "images" and under "files".
CombinedUploads ==
    [images : {NoUpload, <<"a",".","p","n","g">>},
     files  : {NoUpload, <<"a",".","l","o","g">>, <<"b",".","l","o","g">>,
               <<"x","/","a",".","l","o","g">>}]

\* A request before the handler has run.
CombinedRequest(u) ==
    [images |-> u.images,
     files |-> u.files,
     pc |-> "start",
     saved_files |-> << >>,
     read |-> {},
     image_status |-> 0,
     log_status |-> 0,
     drawn |-> 0,
     pdf_files |-> << >>,
     combined_pdf_path |-> None,
     cleaned |-> 0,
     response |-> 0]

\* How the application is served: by app.run(debug=True) of app.py, or by a
\* server that imports app. Flask hands an exception no handler caught on to
\* the caller when debug is set (PROPAGATE_EXCEPTIONS), and answers 500
\* otherwise.
CombinedEnvironments ==
    {[api_key |-> FALSE, genai |-> FALSE, debug |-> d] : d \in BOOLEAN}

CombinedInit ==
    /\ combined \in [1..NumRequests -> {CombinedRequest(u) : u \in CombinedUploads}]
    /\ fs = NoFiles
    /\ fresh = 0
    /\ request = Request(<< >>, Absent, Absent)
    /\ env \in CombinedEnvironments
    /\ pc = "start"
    /\ q = NoQuery
    /\ enabled = FALSE
    /\ file_index = 1
    /\ lines = << >>
    /\ i = 0
    /\ groups = << >>
    /\ group_index = 0
    /\ all_files_groups = << >>
    /\ response = 0
    /\ saved_files = << >>
    /\ pdf_path = None
    /\ calls = << >>
    /\ failure = ""

\* A name request r has not drawn before and no other request draws: r and
\* the count of the names r has drawn so far plus one.
FreshOf(r) == <<r, Fresh(combined[r].drawn)>>

\* `if "images" not in request.files or "files" not in request.files:` 400.
CombinedReject(r) ==
    /\ combined[r].pc = "start"
    /\ combined[r].images = NoUpload \/ combined[r].files = NoUpload
    /\ combined' = [combined EXCEPT ![r] = [@ EXCEPT !.pc = "done", !.response = 400]]
    /\ UNCHANGED <<fs, fresh>>
    /\ UNCHANGED logvars

\* The two paths are made of the base names of the filenames, and
\* image_file.save(temp_image_path).
CombinedSaveImage(r) ==
    /\ combined[r].pc = "start"
    /\ combined[r].images # NoUpload
    /\ combined[r].files # NoUpload
    /\ LET temp_image_path == TempPath(combined[r].images)
           temp_log_path   == TempPath(combined[r].files)
       IN  /\ fs' = WriteFile(fs, temp_image_path, r)
           /\ combined' = [combined EXCEPT ![r] =
                  [@ EXCEPT !.pc = "save_log",
                            !.saved_files = <<temp_image_path, temp_log_path>>]]
    /\ UNCHANGED fresh
    /\ UNCHANGED logvars

\* log_file.save(temp_log_path)
CombinedSaveLog(r) ==
    /\ combined[r].pc = "save_log"
    /\ fs' = WriteFile(fs, combined[r].saved_files[2], r)
    /\ combined' = [combined EXCEPT ![r] = [@ EXCEPT !.pc = "post_image"]]
    /\ UNCHANGED fresh
    /\ UNCHANGED logvars

\* `except OSError`: the save of the image or of the log raises, with the
\* file created or not, and the handler answers 500.
CombinedSaveFails(r) ==
    /\ \/ /\ combined[r].pc = "start"
          /\ combined[r].images # NoUpload
          /\ combined[r].files # NoUpload
       \/ combined[r].pc = "save_log"
    /\ LET temp_image_path == TempPath(combined[r].images)
           temp_log_path   == TempPath(combined[r].files)
           path == IF combined[r].pc = "start" THEN temp_image_path
                   ELSE temp_log_path
       IN  /\ \E created \in BOOLEAN :
                fs' = IF created THEN WriteFile(fs, path, r) ELSE fs
           /\ combined' = [combined EXCEPT ![r] =
                  [@ EXCEPT !.pc = "done",
                            !.saved_files = <<temp_image_path, temp_log_path>>,
                            !.response = 500]]
    /\ UNCHANGED fresh
    /\ UNCHANGED logvars

\* What a request to /images/generatePDF with one image answers with, and
\* which of its temporary image and its report it leaves. 200 after its
\* cleanup, whose single try removes the report and then the image: an
\* os.remove that raises is swallowed and leaves the image, and the report
\* too when it is the first. 500 from its `except Exception`, which removes
\* the images of temp_image_paths, each in a try, and not the report: the
\* image stays when its save raised, before it was appended, or when its
\* os.remove raises; the report stays when it was created before the
\* exception.
ImageOutcomes ==
    {[status |-> 200, left |-> {}],
     [status |-> 200, left |-> {"image"}],
     [status |-> 200, left |-> {"image", "report"}],
     [status |-> 500, left |-> {}],
     [status |-> 500, left |-> {"image"}],
     [status |-> 500, left |-> {"report"}],
     [status |-> 500, left |-> {"image", "report"}]}

\* The files a request to /images/generatePDF made by request r has left,
\* both named by NamedTemporaryFile: the image first, then the report.
ImageLeftFiles(f, r, left) ==
    LET first  == NamedTemporaryFile(FreshOf(r))
        second == NamedTemporaryFile(<<r, Fresh(Fresh(combined[r].drawn))>>)
    IN  IF left = {} THEN f
        ELSE IF Cardinality(left) = 1 THEN WriteFile(f, first, r)
        ELSE WriteFile(WriteFile(f, first, r), second, r)

\* What a request to /log/processLogFile with one file answers with, and
\* which of its saved upload and its report it leaves.
LogOutcomes(filename) ==
    IF CanSave(filename)
    THEN {[status |-> 200, left |-> {}],
          [status |-> 200, left |-> {"report"}],
          [status |-> 500, left |-> {}],
          [status |-> 500, left |-> {"upload"}],
          [status |-> 500, left |-> {"upload", "report"}]}
    ELSE {[status |-> 500, left |-> {}]}

\* The files a sub-request of request r has left: its saved upload of the
\* name filename, its report.
LeftFiles(f, r, left, filename) ==
    LET with_upload ==
            IF "upload" \in left
            THEN WriteFile(f, SavedPath(FreshOf(r), filename), r)
            ELSE f
    IN  IF "report" \in left
        THEN WriteFile(with_upload, ReportPath(FreshOf(r)), r)
        ELSE with_upload

\* The first client.post: it opens the saved image by its path and sends
\* what the file holds, under the filename of the upload, to
\* /images/generatePDF.
CombinedPostImage(r) ==
    /\ combined[r].pc = "post_image"
    /\ combined[r].saved_files[1] \in DOMAIN fs
    /\ \E o \in ImageOutcomes :
         /\ combined' = [combined EXCEPT ![r] =
                [@ EXCEPT !.pc = "post_log",
                          !.read = @ \cup {fs[combined[r].saved_files[1]]},
                          !.image_status = o.status,
                          !.drawn = @ + Cardinality(o.left)]]
         /\ fs' = ImageLeftFiles(fs, r, o.left)
    /\ UNCHANGED fresh
    /\ UNCHANGED logvars

\* The second client.post: it opens the saved log by its path and sends what
\* the file holds, under the filename of the upload, to /log/processLogFile.
\* process_log_file answers 500 only by an exception it does not catch, which
\* becomes a response of status 500 when debug is not set.
CombinedPostLog(r) ==
    /\ combined[r].pc = "post_log"
    /\ combined[r].saved_files[2] \in DOMAIN fs
    /\ \E o \in LogOutcomes(combined[r].files) :
         /\ o.status = 200 \/ ~env.debug
         /\ combined' = [combined EXCEPT ![r] =
                [@ EXCEPT !.pc = "image",
                          !.read = @ \cup {fs[combined[r].saved_files[2]]},
                          !.log_status = o.status,
                          !.drawn = IF o.left = {} THEN @ ELSE @ + 1]]
         /\ fs' = LeftFiles(fs, r, o.left, combined[r].files)
    /\ UNCHANGED fresh
    /\ UNCHANGED logvars

\* The second client.post under debug when process_log_file ends with an
\* exception: the exception leaves client.post, nothing catches it, and the
\* handler ends with a server error without looking at the two responses.
CombinedPostLogRaises(r) ==
    /\ combined[r].pc = "post_log"
    /\ combined[r].saved_files[2] \in DOMAIN fs
    /\ env.debug
    /\ \E o \in LogOutcomes(combined[r].files) :
         /\ o.status = 500
         /\ combined' = [combined EXCEPT ![r] =
                [@ EXCEPT !.pc = "done",
                          !.read = @ \cup {fs[combined[r].saved_files[2]]},
                          !.response = 500,
                          !.drawn = IF o.left = {} THEN @ ELSE @ + 1]]
         /\ fs' = LeftFiles(fs, r, o.left, combined[r].files)
    /\ UNCHANGED fresh
    /\ UNCHANGED logvars

\* A client.post whose saved file is no longer there: open raises, nothing
\* catches the exception and the handler ends with a server error.
CombinedPostFails(r) ==
    /\ \/ /\ combined[r].pc = "post_image"
          /\ combined[r].saved_files[1] \notin DOMAIN fs
       \/ /\ combined[r].pc = "post_log"
          /\ combined[r].saved_files[2] \notin DOMAIN fs
    /\ combined' = [combined EXCEPT ![r] = [@ EXCEPT !.pc = "done", !.response = 500]]
    /\ UNCHANGED <<fs, fresh>>
    /\ UNCHANGED logvars

\* `if image_response.status_code == 200:` the PDF of the images is written
\* to a temporary file; else 500.
CombinedCollectImage(r) ==
    /\ combined[r].pc = "image"
    /\ IF combined[r].image_status = 200
       THEN /\ fs' = WriteFile(fs, NamedTemporaryFile(FreshOf(r)), r)
            /\ combined' = [combined EXCEPT ![r] =
                   [@ EXCEPT !.pc = "log",
                             !.drawn = @ + 1,
                             !.pdf_files = Append(@, NamedTemporaryFile(FreshOf(r)))]]
       ELSE /\ combined' = [combined EXCEPT ![r] =
                   [@ EXCEPT !.pc = "done", !.response = 500]]
            /\ UNCHANGED fs
    /\ UNCHANGED fresh
    /\ UNCHANGED logvars

\* `if log_response.status_code == 200:` the PDF of the log is written to a
\* temporary file; else 500.
CombinedCollectLog(r) ==
    /\ combined[r].pc = "log"
    /\ IF combined[r].log_status = 200
       THEN /\ fs' = WriteFile(fs, NamedTemporaryFile(FreshOf(r)), r)
            /\ combined' = [combined EXCEPT ![r] =
                   [@ EXCEPT !.pc = "merge",
                             !.drawn = @ + 1,
                             !.pdf_files = Append(@, NamedTemporaryFile(FreshOf(r)))]]
       ELSE /\ combined' = [combined EXCEPT ![r] =
                   [@ EXCEPT !.pc = "done", !.response = 500]]
            /\ UNCHANGED fs
    /\ UNCHANGED fresh
    /\ UNCHANGED logvars

\* combined_pdf_path is created and the merger writes the two PDFs to it.
CombinedMerge(r) ==
    /\ combined[r].pc = "merge"
    /\ fs' = WriteFile(fs, NamedTemporaryFile(FreshOf(r)), r)
    /\ combined' = [combined EXCEPT ![r] =
           [@ EXCEPT !.pc = "send",
                     !.drawn = @ + 1,
                     !.combined_pdf_path = Some(NamedTemporaryFile(FreshOf(r)))]]
    /\ UNCHANGED fresh
    /\ UNCHANGED logvars

\* The hook cleanup is registered and the handler returns the response of
\* send_file: every file of the request is still there.
CombinedSend(r) ==
    /\ combined[r].pc = "send"
    /\ combined' = [combined EXCEPT ![r] = [@ EXCEPT !.pc = "exists", !.response = 200]]
    /\ UNCHANGED <<fs, fresh>>
    /\ UNCHANGED logvars

\* [combined_pdf_path] + pdf_files + saved_files
CleanupFiles(r) ==
    <<combined[r].combined_pdf_path[1]>> \o combined[r].pdf_files
    \o combined[r].saved_files

\* Where cleanup goes on after the file of position k: the next turn of its
\* loop, or its end.
AfterCleaned(r, k) == IF k = Len(CleanupFiles(r)) THEN "done" ELSE "exists"

\* One turn of `for f in ...:` of cleanup, which Flask calls after the
\* handler has returned: `if os.path.exists(f):`.
CombinedExists(r) ==
    /\ combined[r].pc = "exists"
    /\ LET k == combined[r].cleaned + 1
       IN  combined' = [combined EXCEPT ![r] =
               IF CleanupFiles(r)[k] \in DOMAIN fs
               THEN [@ EXCEPT !.pc = "remove"]
               ELSE [@ EXCEPT !.pc = AfterCleaned(r, k), !.cleaned = k]]
    /\ UNCHANGED <<fs, fresh>>
    /\ UNCHANGED logvars

\* os.remove(f) of the same turn.
CombinedRemove(r) ==
    /\ combined[r].pc = "remove"
    /\ LET k == combined[r].cleaned + 1
       IN  /\ CleanupFiles(r)[k] \in DOMAIN fs
           /\ fs' = RemoveFiles(fs, {CleanupFiles(r)[k]})
           /\ combined' = [combined EXCEPT ![r] =
                  [@ EXCEPT !.pc = AfterCleaned(r, k), !.cleaned = k]]
    /\ UNCHANGED fresh
    /\ UNCHANGED logvars

\* os.remove(f) raises, on a file it cannot remove or on one that is gone
\* since os.path.exists(f): `except Exception: pass` ends the loop, and f,
\* when it is there, and the files after f stay.
CombinedRemoveFails(r) ==
    /\ combined[r].pc = "remove"
    /\ combined' = [combined EXCEPT ![r] = [@ EXCEPT !.pc = "done"]]
    /\ UNCHANGED <<fs, fresh>>
    /\ UNCHANGED logvars

CombinedNext ==
    \E r \in 1..NumRequests :
        \/ CombinedReject(r)
        \/ CombinedSaveImage(r)
        \/ CombinedSaveLog(r)
        \/ CombinedSaveFails(r)
        \/ CombinedPostImage(r)
        \/ CombinedPostLog(r)
        \/ CombinedPostLogRaises(r)
        \/ CombinedPostFails(r)
        \/ CombinedCollectImage(r)
        \/ CombinedCollectLog(r)
        \/ CombinedMerge(r)
        \/ CombinedSend(r)
        \/ CombinedExists(r)
        \/ CombinedRemove(r)
        \/ CombinedRemoveFails(r)

CombinedSpec == CombinedInit /\ [][CombinedNext]_vars

-----------------------------------------------------------------------------
(* What the properties speak of. *)

\* Every list of groups of the state: the one in work, and those reported.
GroupLists ==
    {groups} \cup {all_files_groups[k].groups : k \in 1..Len(all_files_groups)}

\* The line of 1-based number a of the file in work, as the matcher sees it.
LineAt(a) == RStripNewline(lines[a])

\* The numbers of the lines processed so far that the matcher took.
ProcessedMatched == {a \in 1..i : is_error_line(LineAt(a))}

\* The groups in work that hold an occurrence of line number a.
GroupsOf(a) ==
    {k \in 1..Len(groups) :
        \E j \in 1..Len(groups[k].examples) : groups[k].examples[j].lineNumber = a}

SameGroup(a, b) == GroupsOf(a) \cap GroupsOf(b) # {}

ParseEnded == pc = "parse" /\ i = Len(lines)

\* The normalized text of each matched line processed so far.
NormalizedLines == [a \in ProcessedMatched |-> normalize_message(LineAt(a))]

-----------------------------------------------------------------------------
(* C1 *)

\* C1: in every state, after each processed line of parse_log_file and after
\* the filter, the sort, the truncation and the enrichment, the count of every
\* group equals the number of entries of its examples list.
CountEqualsExamples ==
    \A gs \in GroupLists : \A k \in 1..Len(gs) : gs[k].count = Len(gs[k].examples)

\* A reported group of several occurrences that went through a min_count
\* filter, the sort, a top_k truncation and the enrichment.
CountEqualsExamplesWitness ==
    /\ pc = "done"
    /\ response = 200
    /\ Truthy(q.min_count)
    /\ Truthy(q.top_k)
    /\ \E k \in 1..Len(all_files_groups) :
         /\ all_files_groups[k].groups # << >>
         /\ all_files_groups[k].groups[1].count >= 2
         /\ all_files_groups[k].groups[1].solution # NoKey

-----------------------------------------------------------------------------
(* C2 *)

\* C2: no list of groups holds two groups of the same signature; while a file
\* is parsed, two matched lines of equal normalized text are in one group, and
\* so are two lines that differ only in the timestamp, the IPv4 address and
\* the numeric id: when these are the two matched lines of the file, the parse
\* ends with one group of count 2.
OneGroupPerSignature ==
    /\ \A gs \in GroupLists : \A k1, k2 \in 1..Len(gs) :
         gs[k1].type = gs[k2].type => k1 = k2
    /\ pc = "parse" =>
         \A norm \in {NormalizedLines} : \A a, b \in ProcessedMatched :
            /\ norm[a] = norm[b] => SameGroup(a, b)
            /\ (LineAt(a) \in Variants /\ LineAt(b) \in Variants) => SameGroup(a, b)
    /\ (/\ ParseEnded
        /\ Cardinality(ProcessedMatched) = 2
        /\ \A a \in ProcessedMatched : LineAt(a) \in Variants)
         => Len(groups) = 1 /\ groups[1].count = 2

\* The parse of a file whose two matched lines are different variants has
\* ended with one group of count 2.
OneGroupPerSignatureWitness ==
    /\ ParseEnded
    /\ \E a, b \in ProcessedMatched :
         /\ LineAt(a) \in Variants
         /\ LineAt(b) \in Variants
         /\ LineAt(a) # LineAt(b)
    /\ Len(groups) = 1
    /\ groups[1].count = 2

-----------------------------------------------------------------------------
(* C3 *)

\* C3: normalize_message is idempotent on every line of the file: a second
\* application changes nothing.
NormalizeIdempotent ==
    \A a \in 1..i :
        LET n == normalize_message(LineAt(a))
        IN  normalize_message(n) = n

-----------------------------------------------------------------------------
(* C4 *)

\* The groups of count >= min_count, all of them when min_count is absent.
ClaimedKept(gs, min_count) ==
    IF min_count = None THEN gs
    ELSE SelectSeq(gs, LAMBDA g : g.count >= min_count[1])

\* The order that sorts gs by count descending and keeps ties as they were.
ClaimedOrder(gs) ==
    CHOOSE f \in [1..Len(gs) -> 1..Len(gs)] :
        /\ \A a, b \in 1..Len(gs) : a # b => f[a] # f[b]
        /\ \A a, b \in 1..Len(gs) :
             a < b => \/ gs[f[a]].count > gs[f[b]].count
                      \/ gs[f[a]].count = gs[f[b]].count /\ f[a] < f[b]

ClaimedSorted(gs) == [k \in 1..Len(gs) |-> gs[ClaimedOrder(gs)[k]]]

\* The first top_k groups, all of them when top_k is absent.
ClaimedCut(gs, top_k) ==
    IF top_k = None THEN gs
    ELSE SubSeq(gs, 1, Min(Max(top_k[1], 0), Len(gs)))

ClaimedRank(gs, query) ==
    ClaimedCut(ClaimedSorted(ClaimedKept(gs, query.min_count)), query.top_k)

\* C4: the groups that go on to the report are the parsed groups of
\* count >= min_count (all when min_count is absent), sorted by count descending
\* with ties in first-seen order, cut to the first top_k (not cut when top_k is
\* absent).
RankAsClaimed ==
    [][(pc = "parse" /\ pc' = "enrich") => groups' = ClaimedRank(groups, q)]_vars

\* The same for the requests whose top_k is absent or positive.
RankAsClaimedForPositiveTopK ==
    [][(pc = "parse" /\ pc' = "enrich" /\ (q.top_k = None \/ q.top_k[1] > 0))
         => groups' = ClaimedRank(groups, q)]_vars

-----------------------------------------------------------------------------
(* C5 *)

\* The number of lines of a text block: its line ends, and a last line
\* without one.
LineCount(text) ==
    Cardinality({p \in 1..Len(text) : text[p] = "\n"})
    + (IF text # << >> /\ text[Len(text)] # "\n" THEN 1 ELSE 0)

\* C5: the context of every occurrence holds at most before + after + 1 = 7
\* lines, at most 1 + after when the match is the first line of the file and
\* at most 1 + before when it is the last.
ContextAsClaimed ==
    \A k \in 1..Len(groups) : \A j \in 1..Len(groups[k].examples) :
        LET e     == groups[k].examples[j]
            index == e.lineNumber - 1
        IN  /\ LineCount(e.context) <= ContextBefore + ContextAfter + 1
            /\ index = 0 => LineCount(e.context) <= 1 + ContextAfter
            /\ index = Len(lines) - 1 => LineCount(e.context) <= 1 + ContextBefore

\* The window of the context of every occurrence, in lines of the file: the
\* indices max(0, i - 3) to min(n, i + 4) exclusive.
ContextWindowClamped ==
    \A k \in 1..Len(groups) : \A j \in 1..Len(groups[k].examples) :
        LET e     == groups[k].examples[j]
            index == e.lineNumber - 1
            start == IF index - 3 > 0 THEN index - 3 ELSE 0
            end   == IF index + 4 < Len(lines) THEN index + 4 ELSE Len(lines)
        IN  e.context = JoinNewline([m \in 1..(end - start) |-> lines[start + m]])

-----------------------------------------------------------------------------
(* C6 *)

\* The line holds lit somewhere.
Contains(line, lit) == \E p \in 1..Len(line) : LitAt(line, p, lit)

\* The line holds lit as a whole word.
ContainsWord(line, lit) ==
    \E p \in 1..Len(line) :
        /\ LitAt(line, p, lit)
        /\ At(line, p - 1) \notin WordChar
        /\ At(line, p + Len(lit)) \notin WordChar

\* The error lines of the claim.
ClaimedErrorLine(line) ==
    \/ \E k \in 1..4 : ContainsWord(line, ERROR_PATTERNS[k])
    \/ Contains(line, ERROR_PATTERNS[5])
    \/ Contains(line, ERROR_PATTERNS[6])

\* C6: when the parse of a file has ended, every line that holds ERROR,
\* Exception, FATAL or SEVERE as a whole word, the Traceback phrase or
\* "Caused by:" has an occurrence in a group.
TokenLinesMatched ==
    ParseEnded =>
        \A a \in 1..Len(lines) : ClaimedErrorLine(LineAt(a)) => GroupsOf(a) # {}

-----------------------------------------------------------------------------
(* C7 *)

ContainsLiteral(line) ==
    \E k \in 1..Len(ERROR_PATTERNS) : Contains(line, ERROR_PATTERNS[k])

\* C7: every occurrence of every group is a line that holds one of ERROR,
\* Exception, FATAL, SEVERE, the Traceback phrase or "Caused by:"; while no
\* processed line of the file holds one, there is no group.
OnlyErrorLinesGrouped ==
    /\ \A gs \in GroupLists : \A k \in 1..Len(gs) :
         \A j \in 1..Len(gs[k].examples) :
            ContainsLiteral(gs[k].examples[j].original_message)
    /\ (pc = "parse" /\ \A a \in 1..i : ~ContainsLiteral(LineAt(a)))
         => groups = << >>

\* The parse of a file with a lower-case "error" line and a blank line, and
\* no line that holds a token, has ended without a group.
OnlyErrorLinesGroupedWitness ==
    /\ ParseEnded
    /\ Len(lines) >= 2
    /\ \E a, b \in 1..Len(lines) :
         /\ LineAt(a) = <<"e","r","r","o","r"," ","x">>
         /\ Strip(LineAt(b)) = << >>
    /\ \A a \in 1..Len(lines) : ~ContainsLiteral(LineAt(a))
    /\ groups = << >>

-----------------------------------------------------------------------------
(* C8 *)

ClaimedScenarioText ==
    <<"<","T","I","M","E","S","T","A","M","P",">"," ","E","R","R","O","R"," ",
      "C","o","n","n","e","c","t","i","o","n"," ","r","e","f","u","s","e","d"," ",
      "a","t"," ","<","I","P",">"," ","P","I","D","=","<","N","U","M",">">>

\* C8: the parse of the end-to-end file ends with one group, of the
\* signature of "<TIMESTAMP> ERROR Connection refused at <IP> PID=<NUM>", of
\* count 2, with the line numbers 2 and 4.
ScenarioAsClaimed ==
    (ParseEnded /\ lines = readlines(FileText(ScenarioFile, TRUE))) =>
        /\ Len(groups) = 1
        /\ groups[1].type = stable_signature(ClaimedScenarioText)
        /\ groups[1].count = 2
        /\ [j \in 1..Len(groups[1].examples) |-> groups[1].examples[j].lineNumber]
             = <<2, 4>>

\* What holds of the end-to-end file: one group of count 2 with the line
\* numbers 2 and 4, the address normalized to four <NUM> joined by dots.
ScenarioAsCoded ==
    (ParseEnded /\ lines = readlines(FileText(ScenarioFile, TRUE))) =>
        /\ Len(groups) = 1
        /\ groups[1].count = 2
        /\ [j \in 1..Len(groups[1].examples) |-> groups[1].examples[j].lineNumber]
             = <<2, 4>>
        /\ ~Contains(normalize_message(Connection1), <<"<","I","P",">">>)
        /\ Contains(normalize_message(Connection1),
                    <<"<","N","U","M",">",".","<","N","U","M",">",".",
                      "<","N","U","M",">",".","<","N","U","M",">">>)

-----------------------------------------------------------------------------
(* C9 *)

\* c, or "_" when c is outside [A-Za-z0-9].
KeyChar(c) == IF c \in AlNum THEN c ELSE "_"

\* The first 50 characters of t1 and t2 agree after the replacement.
KeysAgree(t1, t2) ==
    LET n1 == IF Len(t1) < 50 THEN Len(t1) ELSE 50
        n2 == IF Len(t2) < 50 THEN Len(t2) ELSE 50
    IN  n1 = n2 /\ \A c \in 1..n1 : KeyChar(t1[c]) = KeyChar(t2[c])

\* C9: the signature of every group has at most 50 characters, all in
\* [A-Za-z0-9_]; while a file is parsed it has min(len(t), 50) characters for
\* the normalized text t of each of its occurrences, and two matched lines are
\* in one group exactly when the first 50 characters of their normalized
\* texts agree after the replacement by "_".
SignatureOfNormalizedText ==
    /\ \A gs \in GroupLists : \A k \in 1..Len(gs) :
         /\ Len(gs[k].type) <= 50
         /\ \A c \in 1..Len(gs[k].type) : gs[k].type[c] \in AlNum \cup {"_"}
    /\ pc = "parse" =>
         \A norm \in {NormalizedLines} :
            /\ \A a \in ProcessedMatched : \A k \in GroupsOf(a) :
                 /\ Len(groups[k].type)
                      = (IF Len(norm[a]) < 50 THEN Len(norm[a]) ELSE 50)
                 /\ \A c \in 1..Len(groups[k].type) :
                      groups[k].type[c] = KeyChar(norm[a][c])
            /\ \A a, b \in ProcessedMatched :
                 SameGroup(a, b) <=> KeysAgree(norm[a], norm[b])

\* Two matched lines whose normalized texts are longer than 50 characters and
\* differ are in one group.
SignatureOfNormalizedTextWitness ==
    /\ pc = "parse"
    /\ \E a, b \in ProcessedMatched :
         /\ Len(normalize_message(LineAt(a))) > 50
         /\ normalize_message(LineAt(a)) # normalize_message(LineAt(b))
         /\ SameGroup(a, b)

-----------------------------------------------------------------------------
(* C10 *)

\* The groups the enrichment loop has gone through, in work and reported.
EnrichedGroups ==
    {groups[k] : k \in 1..(IF pc = "enrich" THEN group_index ELSE 0)}
    \cup UNION {{all_files_groups[f].groups[k] :
                    k \in 1..Len(all_files_groups[f].groups)} :
                f \in 1..Len(all_files_groups)}

\* v is a str, not an unset key.
IsStr(v) == v # NoKey /\ v \in Seq(STRING)

\* No call of suggest_solution raises, whatever the external model does, no
\* request ends with a server error because of such a call, and every group
\* the enrichment has gone through has a str as representative_message and
\* as solution.
SuggestSolutionNeverRaises ==
    /\ failure # "enrich"
    /\ \A c \in Range(calls) : ~c.answer.raised
    /\ \A g \in EnrichedGroups :
         IsStr(g.representative_message) /\ IsStr(g.solution)

\* C10: whatever the external model does, the construction of the client
\* with a key included, no request ends with a server error because of the
\* enrichment, and every group the enrichment has gone through has a str as
\* representative_message and as solution.
EnrichmentNeverFails ==
    /\ failure \notin {"client", "enrich"}
    /\ SuggestSolutionNeverRaises

\* A request with the client enabled has sent its report, a group of which
\* carries the fallback of a reply that lacked a field.
EnrichmentNeverFailsWitness ==
    /\ pc = "done"
    /\ response = 200
    /\ enabled
    /\ \E g \in EnrichedGroups :
         /\ g.representative_message = FString("Echec Gemini: ", "ValidationError")
         /\ g.solution = FString("Echec Gemini: ", "ValidationError")

-----------------------------------------------------------------------------
(* C11 *)

\* C11: once the request is finished, on whatever exit path, no temporary
\* file the request created (saved upload, report) is left in the temporary
\* directory.
TempFilesReleased == pc = "done" => DOMAIN fs = {}

\* On the two exit paths without an exception, the rejection and the report
\* sent, no saved upload is left, and the report only when remove_file could
\* not remove it.
TempFilesReleasedWithoutException ==
    (pc = "done" /\ failure = "") =>
        \/ DOMAIN fs = {}
        \/ response = 200 /\ DOMAIN fs = {pdf_path[1]}

\* After an exception of the parse, the enrichment or the rendering, every
\* upload saved so far is still there.
SavedUploadsLeftAfterException ==
    (pc = "done" /\ failure \in {"read", "enrich", "render"}) =>
        /\ saved_files # << >>
        /\ Range(saved_files) \subseteq DOMAIN fs

-----------------------------------------------------------------------------
(* C12 *)

\* A form value the claim takes as valid: absent, or a positive integer.
ClaimedFieldValid(raw) ==
    raw = Absent \/ (IsIntString(raw) /\ IntOfString(raw) > 0)

\* A request the claim wants rejected.
ClaimedInvalid(r) ==
    \/ r.files = << >>
    \/ ~ClaimedFieldValid(r.top_k)
    \/ ~ClaimedFieldValid(r.min_count)

\* Nothing was saved, parsed, enriched or reported.
NoProcessing ==
    /\ saved_files = << >>
    /\ DOMAIN fs = {}
    /\ i = 0
    /\ groups = << >>
    /\ calls = << >>
    /\ all_files_groups = << >>
    /\ pdf_path = None

\* C12: a request without files, or whose top_k or min_count is not a
\* positive integer, is answered with 400 and nothing of it is processed.
InvalidRequestsRejected ==
    ClaimedInvalid(request) =>
        /\ NoProcessing
        /\ pc \in {"start", "done"}
        /\ pc = "done" => response = 400

\* The same for the requests ProcessLogQuery rejects: no files, or a field
\* that is not the text of an integer.
MalformedRequestsRejected ==
    (\/ request.files = << >>
     \/ ~FieldValid(request.top_k)
     \/ ~FieldValid(request.min_count)) =>
        /\ NoProcessing
        /\ pc \in {"start", "done"}
        /\ pc = "done" => response = 400

-----------------------------------------------------------------------------
(* C13 *)

\* The requests to /generateCombinedPDF that are being handled.
InFlight == {r \in DOMAIN combined : combined[r].pc \notin {"start", "done"}}

\* The temporary paths request r writes, reads or deletes.
PathsOf(r) ==
    Range(combined[r].saved_files) \cup Range(combined[r].pdf_files)
    \cup (IF combined[r].combined_pdf_path = None THEN {}
          ELSE {combined[r].combined_pdf_path[1]})

\* C13: two requests in flight have no temporary path in common, also when
\* they upload files of the same name, and no request has read a file that
\* another request wrote.
RequestsShareNoPath ==
    /\ \A r1, r2 \in InFlight : r1 # r2 => PathsOf(r1) \cap PathsOf(r2) = {}
    /\ \A r \in DOMAIN combined : combined[r].read \subseteq {r}

\* The base names of the uploads of request r.
BaseNames(r) == {basename(combined[r].images), basename(combined[r].files)}

\* Two requests that upload no files of the same base name share no path.
DistinctNamesShareNoPath ==
    \A r1, r2 \in InFlight :
        (r1 # r2 /\ BaseNames(r1) \cap BaseNames(r2) = {})
        => PathsOf(r1) \cap PathsOf(r2) = {}

\* No request sends to its sub-requests the upload of another request.
ReadsOwnUploads == \A r \in DOMAIN combined : combined[r].read \subseteq {r}

\* No request that saved its uploads finds one removed when it posts it.
UploadsStayUntilPosted ==
    \A r \in DOMAIN combined :
        /\ combined[r].pc = "post_image" => combined[r].saved_files[1] \in DOMAIN fs
        /\ combined[r].pc = "post_log" => combined[r].saved_files[2] \in DOMAIN fs

\* Once every request to /generateCombinedPDF is finished, no temporary file
\* is left.
CombinedTempFilesReleased ==
    (\A r \in DOMAIN combined : combined[r].pc = "done") => DOMAIN fs = {}

\* The kinds of the files in the temporary directory of /processLogFile.
LeftKinds == {IF p[1] = "upload" THEN "upload" ELSE "report" : p \in DOMAIN fs}

\* A request to /processLogFile with one file ends in one of the outcomes
\* that the combined route's second post is taken to have.
OutcomesOfOneFile ==
    (pc = "done" /\ Len(request.files) = 1 /\ response # 400) =>
        [status |-> response, left |-> LeftKinds]
            \in LogOutcomes(request.files[1].filename)

\* A request that answers 200 leaves no temporary file once it is finished.
CombinedReportLeavesNoFile ==
    \A r \in DOMAIN combined :
        (combined[r].pc = "done" /\ combined[r].response = 200)
        => \A p \in DOMAIN fs : fs[p] # r /\ p \notin PathsOf(r)

-----
(* C14 *)

\* The calls of suggest_solution made for the file of position f.
CallsOfFile(f) == LET of_f(c) == c.file = f IN SelectSeq(calls, of_f)

\* The first n groups of gs are the groups the calls cs were made for, one
\* call each and in order: the argument is the message of the first
\* occurrence, the message and the solution are those of the answer.
EnrichedBy(gs, n, cs) ==
    /\ Len(cs) = n
    /\ \A k \in 1..n :
         /\ cs[k].error_message = gs[k].examples[1].original_message
         /\ gs[k].representative_message = cs[k].answer.reformulated
         /\ gs[k].solution = cs[k].answer.solution

\* An enrichment step keeps the groups, their order, count, signature,
\* severity and examples.
EnrichKeeps(before, after) ==
    /\ Len(after) = Len(before)
    /\ \A k \in 1..Len(before) :
         /\ after[k].type = before[k].type
         /\ after[k].count = before[k].count
         /\ after[k].examples = before[k].examples
         /\ after[k].severity = before[k].severity

\* Where the enrichment of the file in work stands.
EnrichmentInOrder ==
    /\ pc = "parse" =>
         /\ CallsOfFile(file_index) = << >>
         /\ \A k \in 1..Len(groups) : groups[k].solution = NoKey
    /\ pc = "enrich" =>
         /\ EnrichedBy(groups, group_index, CallsOfFile(file_index))
         /\ \A k \in (group_index + 1)..Len(groups) :
              /\ groups[k].solution = NoKey
              /\ groups[k].representative_message = groups[k].examples[1].original_message
    /\ \A f \in 1..Len(all_files_groups) :
         EnrichedBy(all_files_groups[f].groups, Len(all_files_groups[f].groups),
                    CallsOfFile(f))

\* C14: suggest_solution is called only after the filter, the sort and the
\* truncation, once for each surviving group and for no other, with the
\* message of the group's first occurrence; the group then carries the
\* answer's reformulated text and solution, and the enrichment changes
\* neither the order of the groups nor their count, signature or examples.
EnrichmentAfterRanking ==
    /\ []EnrichmentInOrder
    /\ [][(pc = "enrich" /\ pc' \in {"enrich", "file"}) => EnrichKeeps(groups, groups')]_vars
    /\ [][calls' # calls => (pc = "enrich" /\ Len(calls') = Len(calls) + 1)]_vars

\* The enabled client has answered for the one group that survived a top_k
\* of 1, and a matched line of the file is in no group: its group was dropped.
EnrichmentAfterRankingWitness ==
    /\ pc = "enrich"
    /\ enabled
    /\ q.top_k = Some(1)
    /\ group_index = 1
    /\ Len(groups) = 1
    /\ Len(CallsOfFile(file_index)) = 1
    /\ groups[1].solution = Opaque("model solution")
    /\ \E a \in 1..Len(lines) : is_error_line(LineAt(a)) /\ GroupsOf(a) = {}

-----------------------------------------------------------------------------
(* C15 *)

\* The line numbers of the occurrences of group k, in order.
LineNumbers(k) ==
    [j \in 1..Len(groups[k].examples) |-> groups[k].examples[j].lineNumber]

\* C15: while and after parse_log_file runs, the groups stand in the order
\* in which their signatures were first seen; the occurrences of a group
\* have strictly increasing line numbers, each the 1-based index of a
\* matched line whose trimmed text is the occurrence's original_message;
\* and the representative_message is the original_message of the first
\* occurrence.
GroupsInFirstSeenOrder ==
    pc = "parse" =>
        \A norm \in {NormalizedLines} :
            /\ \A k \in 1..Len(groups) :
                 LET ex == groups[k].examples
                 IN  /\ ex # << >>
                     /\ \A j \in 1..(Len(ex) - 1) :
                          ex[j].lineNumber < ex[j + 1].lineNumber
                     /\ \A j \in 1..Len(ex) :
                          /\ ex[j].lineNumber \in 1..Len(lines)
                          /\ ex[j].lineNumber \in ProcessedMatched
                          /\ ex[j].original_message = Strip(LineAt(ex[j].lineNumber))
                     /\ groups[k].representative_message = ex[1].original_message
                     /\ \A a \in ProcessedMatched :
                          stable_signature(norm[a]) = groups[k].type
                              => ex[1].lineNumber <= a
                     /\ stable_signature(norm[ex[1].lineNumber]) = groups[k].type
            /\ \A k, l \in 1..Len(groups) :
                 k < l => LineNumbers(k)[1] < LineNumbers(l)[1]

\* The parse of a file has ended with two groups, the first of which has
\* two occurrences that enclose the first occurrence of the second.
GroupsInFirstSeenOrderWitness ==
    /\ ParseEnded
    /\ Len(groups) = 2
    /\ Len(groups[1].examples) = 2
    /\ LineNumbers(1)[1] < LineNumbers(2)[1]
    /\ LineNumbers(2)[1] < LineNumbers(1)[2]

-----------------------------------------------------------------------------
(* C16 *)

\* The lines of the upload of position f that the matcher takes.
MatchedLinesOf(f) ==
    LET ls == readlines(request.files[f].content)
    IN  {a \in 1..Len(ls) : is_error_line(RStripNewline(ls[a]))}

\* The entries of the report are those of the first uploads, in order, each
\* with the groups of its own file.
EntriesFollowUploads ==
    /\ Len(all_files_groups) <= Len(request.files)
    /\ \A f \in 1..Len(all_files_groups) :
         LET entry == all_files_groups[f]
             ls    == readlines(request.files[f].content)
         IN  /\ entry.filename = request.files[f].filename
             /\ MatchedLinesOf(f) = {} => entry.groups = << >>
             /\ \A k \in 1..Len(entry.groups) :
                  \A j \in 1..Len(entry.groups[k].examples) :
                      entry.groups[k].examples[j].lineNumber \in MatchedLinesOf(f)

\* C16: a report is sent only with one entry for each uploaded file, in
\* upload order, a file without groups included; and when a file cannot be
\* saved or read the request ends there with a server error and no report.
OneEntryPerFile ==
    /\ EntriesFollowUploads
    /\ (pc = "send" \/ response = 200) =>
         /\ Len(all_files_groups) = Len(request.files)
         /\ failure = ""
    /\ failure \in {"save", "read"} =>
         /\ pc = "done"
         /\ response = 500
         /\ pdf_path = None
         /\ Len(all_files_groups) < Len(request.files)

\* The report of a batch of two files was sent: the first file has no
\* group, the second has one.
OneEntryPerFileWitness ==
    /\ pc = "done"
    /\ response = 200
    /\ Len(request.files) = 2
    /\ Len(all_files_groups) = 2
    /\ all_files_groups[1].groups = << >>
    /\ all_files_groups[2].groups # << >>

\* The second file of a batch could not be read, after the first was done.
UnreadableFileWitness ==
    /\ failure = "read"
    /\ Len(all_files_groups) = 1
    /\ Len(request.files) = 2

-----------------------------------------------------------------------------
(* C17 *)

RECURSIVE SumOfCounts(_)
SumOfCounts(gs) ==
    IF gs = << >> THEN 0 ELSE gs[1].count + SumOfCounts(Tail(gs))

\* The occurrences, as <<group, position>>, that carry line number a.
OccurrencesOf(a) ==
    {kj \in UNION {{<<k, j>> : j \in 1..Len(groups[k].examples)} : k \in 1..Len(groups)} :
        groups[kj[1]].examples[kj[2]].lineNumber = a}

\* C17: at every point of the pass and after it, the counts of the groups
\* add up to the number of lines processed that match some pattern, each
\* such line is in exactly one occurrence of one group, and no other line
\* is in any.
MatchedLinesConserved ==
    pc = "parse" =>
        /\ SumOfCounts(groups) = Cardinality(ProcessedMatched)
        /\ \A a \in ProcessedMatched : Cardinality(OccurrencesOf(a)) = 1
        /\ \A a \in (1..Len(lines)) \ ProcessedMatched : OccurrencesOf(a) = {}

\* The pass over a file has ended; two of its lines match two patterns each
\* and are in one group, with another line and group between them.
MatchedLinesConservedWitness ==
    /\ ParseEnded
    /\ Len(groups) = 2
    /\ SumOfCounts(groups) = 3
    /\ \E a \in ProcessedMatched :
         /\ Cardinality({k \in 1..Len(ERROR_PATTERNS) : PatternSearch(k, LineAt(a))}) = 2
         /\ Cardinality(OccurrencesOf(a)) = 1

=============================================================================
